---- MODULE Spec2Model ----
(***************************************************************************)
(* Setup.py of odin-wrapper-swift: read the version token out of           *)
(* Sources/OdinKit.swift, build the release URL, download the archive      *)
(* into a named temporary file and extract it into Frameworks/.            *)
(*                                                                         *)
(* A file is a sequence of tokens.  The version file is a sequence of      *)
(* lines; an archive body is a sequence of blocks (member header, data     *)
(* block, end-of-archive block), optionally wrapped in a gzip stream.      *)
(* A URL is the sequence of the string pieces that were concatenated.      *)
(***************************************************************************)
EXTENDS Integers, Sequences, FiniteSets, TLC

(* ---------------------------- bounds ----------------------------------- *)
MaxRuns == 2
MaxLines == 2
MaxEntries == 2
MaxSize == 2
\* io.DEFAULT_BUFFER_SIZE (8192) and shutil.COPY_BUFSIZE (65536), in blocks
BufferSize == 2
CopyBufSize == 3

Versions == {"1.2.3", "2.0.0"}
Paths == {"a", "b"}
Bytes == {1}
PriorContents == {<<0>>, <<1, 1, 1>>}

SeqUpTo(S, n) == UNION {[1..k -> S] : k \in 0..n}
Range(s) == {s[i] : i \in DOMAIN s}
Min(a, b) == IF a < b THEN a ELSE b

(* ------------------------- the version file ---------------------------- *)
\* A line is either unrelated text or an assignment  let version = "<value>"
\* (value "" is the malformed form  let version = "" ).
Lines == {[kind |-> "other", value |-> ""]} \cup
         {[kind |-> "assign", value |-> v] : v \in Versions \cup {""}}

VersionFiles == {[exists |-> FALSE, text |-> <<>>]} \cup
                {[exists |-> TRUE, text |-> t] : t \in SeqUpTo(Lines, MaxLines)}

\* the single line  let version = "1.2.3"
SimpleVersionFiles == {[exists |-> TRUE, text |-> <<[kind |-> "assign", value |-> "1.2.3"]>>]}

\* re.findall("let version = \"([^\"]+)\"", text): the captured groups, in order
RECURSIVE findall(_)
findall(text) ==
  IF text = <<>> THEN <<>>
  ELSE LET l == Head(text) IN
       (IF l.kind = "assign" /\ l.value # "" THEN <<l.value>> ELSE <<>>)
         \o findall(Tail(text))

get_xcframework_version_last(f) ==
  IF ~f.exists THEN [exc |-> "FileNotFoundError", value |-> "none"]
  ELSE LET m == findall(f.text) IN
       IF m = <<>> THEN [exc |-> "IndexError", value |-> "none"]
       ELSE [exc |-> "none", value |-> m[Len(m)]]

get_xcframework_version_default(f) ==
  IF ~f.exists THEN [exc |-> "FileNotFoundError", value |-> "none"]
  ELSE LET m == findall(f.text) IN
       IF m = <<>> THEN [exc |-> "none", value |-> "none"]
       ELSE [exc |-> "none", value |-> m[1]]

get_xcframework_version_emptytext(f) ==
  LET m == findall(IF f.exists THEN f.text ELSE <<>>) IN
  IF m = <<>> THEN [exc |-> "IndexError", value |-> "none"]
  ELSE [exc |-> "none", value |-> m[1]]

\* open() raises FileNotFoundError; [0] of an empty list raises IndexError
get_xcframework_version(f) ==
  IF ~f.exists THEN [exc |-> "FileNotFoundError", value |-> "none"]
  ELSE LET m == findall(f.text) IN
       IF m = <<>> THEN [exc |-> "IndexError", value |-> "none"]
       ELSE [exc |-> "none", value |-> m[1]]

(* ------------------------------ the URL -------------------------------- *)
coresdk_url == "https://github.com/4Players/odin-sdk"

xcframework_url_twice(v) ==
  <<coresdk_url, "/releases/download/v", v, "/odin-xcframework", v, ".tgz">>

xcframework_url(v) ==
  <<coresdk_url, "/releases/download/v", v, "/odin-xcframework.tgz">>

(* --------------------------- archive bodies ---------------------------- *)
Tok(t, p, n) == [t |-> t, path |-> p, n |-> n]

Entries == [path : Paths, content : SeqUpTo(Bytes, MaxSize)]

Archives == {a \in SeqUpTo(Entries, MaxEntries) :
               \A i, j \in DOMAIN a : i # j => a[i].path # a[j].path}

\* header block, data blocks, ..., end-of-archive block
RECURSIVE tar_bytes(_)
tar_bytes(entries) ==
  IF entries = <<>> THEN <<Tok("end", "", 0)>>
  ELSE LET e == Head(entries) IN
       <<Tok("hdr", e.path, Len(e.content))>>
         \o [i \in 1..Len(e.content) |-> Tok("data", "", e.content[i])]
         \o tar_bytes(Tail(entries))

gz_bytes(entries) ==
  <<Tok("gzhdr", "", 0)>> \o tar_bytes(entries) \o <<Tok("gztrailer", "", 0)>>

JunkBody == [i \in 1..(CopyBufSize + 1) |-> Tok("junk", "", 0)]

\* what the server may answer: a tar, a gzip'ed tar, or bytes that are no archive
Served ==
  {[bytes |-> tar_bytes(a), valid |-> TRUE, entries |-> a] : a \in Archives} \cup
  {[bytes |-> gz_bytes(a), valid |-> TRUE, entries |-> a] : a \in Archives} \cup
  {[bytes |-> JunkBody, valid |-> FALSE, entries |-> <<>>]}

NothingServed == [bytes |-> <<>>, valid |-> FALSE, entries |-> <<>>]

(* ---------------- the temporary file's buffered writer ----------------- *)
\* f = [disk: what the file holds (and a reader by name sees),
\*      buf:  what the writer still holds in its buffer]
\* BufferedWriter.write: data that fits stays in the buffer; otherwise the
\* buffer is flushed, data longer than the buffer goes straight to the file
\* and a remainder that fits is buffered.
BufferedWrite(f, chunk) ==
  IF Len(chunk) <= BufferSize - Len(f.buf)
  THEN [disk |-> f.disk, buf |-> f.buf \o chunk]
  ELSE IF Len(chunk) > BufferSize
       THEN [disk |-> f.disk \o f.buf \o chunk, buf |-> <<>>]
       ELSE [disk |-> f.disk \o f.buf, buf |-> chunk]

\* shutil.copyfileobj: read(COPY_BUFSIZE) until empty, write each chunk
RECURSIVE copyfileobj(_, _)
copyfileobj(src, f) ==
  IF src = <<>> THEN f
  ELSE LET n == Min(CopyBufSize, Len(src)) IN
       copyfileobj(SubSeq(src, n + 1, Len(src)), BufferedWrite(f, SubSeq(src, 1, n)))

(* ------------------------------ tarfile -------------------------------- *)
IsGz(vis) == vis # <<>> /\ vis[1].t = "gzhdr"

\* the decompressed stream a reader gets out of what the file holds
Payload(vis) ==
  IF IsGz(vis) THEN SelectSeq(Tail(vis), LAMBDA b : b.t # "gztrailer") ELSE vis

\* tarfile.open(name): reads the first header
taropen(vis) ==
  LET s == Payload(vis) IN
  IF s = <<>> THEN (IF IsGz(vis) THEN "EOFError" ELSE "ReadError")
  ELSE IF Head(s).t \in {"hdr", "end"} THEN "none" ELSE "ReadError"

\* TarFile.extractall: members are read and written one after the other.
\* A missing header past offset 0 ends a plain tar silently; a gzip stream
\* that ends early raises EOFError; missing data blocks leave a partial file.
RECURSIVE extractall(_, _, _)
extractall(s, gz, acc) ==
  IF s = <<>> THEN [writes |-> acc, err |-> IF gz THEN "EOFError" ELSE "none"]
  ELSE LET h == Head(s) IN
       IF h.t = "hdr"
       THEN LET avail == Min(h.n, Len(s) - 1)
                e == [path |-> h.path, content |-> [i \in 1..avail |-> s[i + 1].n]]
            IN IF avail < h.n
               THEN [writes |-> Append(acc, e),
                     err |-> IF gz THEN "EOFError" ELSE "ReadError"]
               ELSE extractall(SubSeq(s, avail + 2, Len(s)), gz, Append(acc, e))
       ELSE [writes |-> acc, err |-> "none"]

(* ------------------------- the output directory ------------------------ *)
Dirs == UNION {[D -> PriorContents] : D \in SUBSET Paths}

WriteFileAppend(o, p, c) ==
  [q \in DOMAIN o \cup {p} |->
     IF q = p THEN (IF p \in DOMAIN o THEN o[p] \o c ELSE c) ELSE o[q]]

WriteFileSkip(o, p, c) == o

\* a member is written over whatever is at its path
WriteFile(o, p, c) ==
  [q \in DOMAIN o \cup {p} |-> IF q = p THEN c ELSE o[q]]

RECURSIVE ApplyWrites(_, _)
ApplyWrites(o, ws) ==
  IF ws = <<>> THEN o
  ELSE ApplyWrites(WriteFile(o, Head(ws).path, Head(ws).content), Tail(ws))

(* ------------------------------- state --------------------------------- *)
VARIABLES
  versionFile,   \* Sources/OdinKit.swift
  out,           \* Frameworks/: path -> content
  tmpfiles,      \* names of the temporary files on disk
  run,           \* number of the current run
  pc,            \* the statement the run is at
  xcframework_version,
  stdout,
  requested,     \* the URLs passed to urlopen in this run
  response,      \* what the server answered
  responseOpen,
  tmpName,
  tmp,           \* [disk, buf] of the temporary file
  tarOpen,
  error,         \* class of the unhandled exception, or "none"
  failedAt,      \* the call that raised it
  exitStatus,    \* -1 while running
  calls,         \* the calls made in this run, in order
  outAtStart,    \* Frameworks/ when the run started
  written,       \* members written by this run
  tmpCreated,    \* this run created its temporary file
  prev           \* the previous run: [ok, version, bytes, out]

vars == <<versionFile, out, tmpfiles, run, pc, xcframework_version, stdout,
          requested, response, responseOpen, tmpName, tmp, tarOpen, error,
          failedAt, exitStatus, calls, outAtStart, written, tmpCreated, prev>>

NoPrev == [ok |-> FALSE, version |-> "none", bytes |-> <<>>, out |-> <<>>]
EmptyTmp == [disk |-> <<>>, buf |-> <<>>]

StartOfRun ==
  /\ pc = "start"
  /\ xcframework_version = "none"
  /\ stdout = <<>>
  /\ requested = <<>>
  /\ response = NothingServed
  /\ responseOpen = FALSE
  /\ tmpName = 0
  /\ tmp = EmptyTmp
  /\ tarOpen = FALSE
  /\ error = "none"
  /\ failedAt = "none"
  /\ exitStatus = -1
  /\ calls = <<>>
  /\ written = <<>>
  /\ tmpCreated = FALSE

Init ==
  /\ versionFile \in VersionFiles
  /\ out \in Dirs
  /\ outAtStart = out
  /\ tmpfiles = {}
  /\ run = 1
  /\ prev = NoPrev
  /\ StartOfRun

InitTwice ==
  /\ versionFile \in SimpleVersionFiles
  /\ out \in Dirs
  /\ outAtStart = out
  /\ tmpfiles = {}
  /\ run = 1
  /\ prev = NoPrev
  /\ StartOfRun

(* --------------------- leaving the with blocks ------------------------- *)
tmp_exit_keep(files, name) == files

\* NamedTemporaryFile(delete = True).__exit__: close, which unlinks the file
tmp_exit(files, name) == files \ {name}

ExitScopes ==
  /\ tmpfiles' = IF tmpCreated THEN tmp_exit(tmpfiles, tmpName) ELSE tmpfiles
  /\ tmp' = EmptyTmp
  /\ responseOpen' = FALSE

RaiseSwallowed(call, exc) ==
  /\ error' = exc
  /\ failedAt' = call
  /\ exitStatus' = exitStatus
  /\ pc' = "print_done"
  /\ ExitScopes

\* an exception nothing catches: the with blocks are left, the process ends
Raise(call, exc) ==
  /\ error' = exc
  /\ failedAt' = call
  /\ exitStatus' = 1
  /\ pc' = "exit"
  /\ ExitScopes

(* ------------------------------ actions -------------------------------- *)
\* line 22
GetVersion ==
  /\ pc = "start"
  /\ calls' = Append(calls, "get_xcframework_version")
  /\ LET r == get_xcframework_version(versionFile) IN
     IF r.exc # "none"
     THEN /\ Raise("get_xcframework_version", r.exc)
          /\ UNCHANGED xcframework_version
     ELSE /\ xcframework_version' = r.value
          /\ pc' = "print_start"
          /\ UNCHANGED <<error, failedAt, exitStatus, tmpfiles, tmp, responseOpen>>
  /\ UNCHANGED <<versionFile, out, run, stdout, requested, response, tmpName,
                 tarOpen, outAtStart, written, tmpCreated, prev>>

\* line 23
PrintStart ==
  /\ pc = "print_start"
  /\ calls' = Append(calls, "print_start")
  /\ stdout' = Append(stdout, <<"Downloading Odin.xcframework version", xcframework_version>>)
  /\ pc' = "urlopen"
  /\ UNCHANGED <<versionFile, out, tmpfiles, run, xcframework_version, requested,
                 response, responseOpen, tmpName, tmp, tarOpen, error, failedAt,
                 exitStatus, outAtStart, written, tmpCreated, prev>>

\* lines 25-26
UrlOpen ==
  /\ pc = "urlopen"
  /\ calls' = Append(calls, "urlopen")
  /\ requested' = Append(requested, xcframework_url(xcframework_version))
  /\ \/ \E exc \in {"URLError", "HTTPError"} :
          /\ Raise("urlopen", exc)
          /\ UNCHANGED response
     \/ \E r \in Served :
          /\ response' = r
          /\ responseOpen' = TRUE
          /\ pc' = "tmp_create"
          /\ UNCHANGED <<error, failedAt, exitStatus, tmpfiles, tmp>>
  /\ UNCHANGED <<versionFile, out, run, xcframework_version, stdout, tmpName,
                 tarOpen, outAtStart, written, tmpCreated, prev>>

\* line 27
NamedTemporaryFile ==
  /\ pc = "tmp_create"
  /\ calls' = Append(calls, "NamedTemporaryFile")
  /\ tmpName' = run
  /\ tmpfiles' = tmpfiles \cup {run}
  /\ tmp' = EmptyTmp
  /\ tmpCreated' = TRUE
  /\ pc' = "copy"
  /\ UNCHANGED <<versionFile, out, run, xcframework_version, stdout, requested,
                 response, responseOpen, tarOpen, error, failedAt, exitStatus,
                 outAtStart, written, prev>>

\* line 28
CopyFileObj ==
  /\ pc = "copy"
  /\ calls' = Append(calls, "copyfileobj")
  /\ \/ \E exc \in {"IncompleteRead", "ConnectionResetError"} :
          Raise("copyfileobj", exc)
     \/ /\ tmp' = copyfileobj(response.bytes, tmp)
        /\ pc' = "tar_open"
        /\ UNCHANGED <<error, failedAt, exitStatus, tmpfiles, responseOpen>>
  /\ UNCHANGED <<versionFile, out, run, xcframework_version, stdout, requested,
                 response, tmpName, tarOpen, outAtStart, written, tmpCreated, prev>>

\* line 29: the file is opened by its name
TarOpen ==
  /\ pc = "tar_open"
  /\ calls' = Append(calls, "tarfile.open")
  /\ LET e == taropen(tmp.disk) IN
     IF e # "none"
     THEN /\ Raise("tarfile.open", e)
          /\ UNCHANGED tarOpen
     ELSE /\ tarOpen' = TRUE
          /\ pc' = "extract"
          /\ UNCHANGED <<error, failedAt, exitStatus, tmpfiles, tmp, responseOpen>>
  /\ UNCHANGED <<versionFile, out, run, xcframework_version, stdout, requested,
                 response, tmpName, outAtStart, written, tmpCreated, prev>>

\* line 30
ExtractAll ==
  /\ pc = "extract"
  /\ calls' = Append(calls, "extractall")
  /\ LET r == extractall(Payload(tmp.disk), IsGz(tmp.disk), <<>>) IN
     \/ /\ r.err = "none"
        /\ out' = ApplyWrites(out, r.writes)
        /\ written' = r.writes
        /\ pc' = "tar_close"
        /\ UNCHANGED <<error, failedAt, exitStatus, tmpfiles, tmp, responseOpen>>
     \/ /\ r.err # "none"
        /\ out' = ApplyWrites(out, r.writes)
        /\ written' = r.writes
        /\ Raise("extractall", r.err)
     \/ \E k \in 0..(Len(r.writes) - 1) :
          /\ out' = ApplyWrites(out, SubSeq(r.writes, 1, k))
          /\ written' = SubSeq(r.writes, 1, k)
          /\ Raise("extractall", "PermissionError")
  /\ UNCHANGED <<versionFile, run, xcframework_version, stdout, requested,
                 response, tmpName, tarOpen, outAtStart, tmpCreated, prev>>

\* line 31 and the ends of the with blocks of lines 27 and 26
TarClose ==
  /\ pc = "tar_close"
  /\ calls' = Append(calls, "tar.close")
  /\ tarOpen' = FALSE
  /\ ExitScopes
  /\ pc' = "print_done"
  /\ UNCHANGED <<versionFile, out, run, xcframework_version, stdout, requested,
                 response, tmpName, error, failedAt, exitStatus, outAtStart,
                 written, tmpCreated, prev>>

\* line 33
PrintDone ==
  /\ pc = "print_done"
  /\ calls' = Append(calls, "print_done")
  /\ stdout' = Append(stdout, <<"All done :-)">>)
  /\ exitStatus' = IF exitStatus = -1 THEN 0 ELSE exitStatus
  /\ pc' = "exit"
  /\ UNCHANGED <<versionFile, out, tmpfiles, run, xcframework_version, requested,
                 response, responseOpen, tmpName, tmp, tarOpen, error, failedAt,
                 outAtStart, written, tmpCreated, prev>>

\* the script is started again
Rerun ==
  /\ pc = "exit"
  /\ run < MaxRuns
  /\ run' = run + 1
  /\ prev' = [ok |-> error = "none", version |-> xcframework_version,
              bytes |-> response.bytes, out |-> out]
  /\ outAtStart' = out
  /\ pc' = "start"
  /\ xcframework_version' = "none"
  /\ stdout' = <<>>
  /\ requested' = <<>>
  /\ response' = NothingServed
  /\ responseOpen' = FALSE
  /\ tmpName' = 0
  /\ tmp' = EmptyTmp
  /\ tarOpen' = FALSE
  /\ error' = "none"
  /\ failedAt' = "none"
  /\ exitStatus' = -1
  /\ calls' = <<>>
  /\ written' = <<>>
  /\ tmpCreated' = FALSE
  /\ UNCHANGED <<versionFile, out, tmpfiles>>

Next ==
  \/ GetVersion
  \/ PrintStart
  \/ UrlOpen
  \/ NamedTemporaryFile
  \/ CopyFileObj
  \/ TarOpen
  \/ ExtractAll
  \/ TarClose
  \/ PrintDone

Spec == Init /\ [][Next]_vars

NextTwice == Next \/ Rerun

SpecTwice == InitTwice /\ [][NextTwice]_vars

(* ------------------------------ properties ----------------------------- *)
Matches(f) == {i \in DOMAIN f.text : f.text[i].kind = "assign" /\ f.text[i].value # ""}

FirstMatch(f) == f.text[CHOOSE i \in Matches(f) : \A j \in Matches(f) : i <= j].value

VersionUnresolvable == ~versionFile.exists \/ Matches(versionFile) = {}

DoneMessage == <<"All done :-)">>

Pipeline == <<"get_xcframework_version", "print_start", "urlopen",
              "NamedTemporaryFile", "copyfileobj", "tarfile.open", "extractall",
              "tar.close", "print_done">>

IsPrefix(s, t) == Len(s) <= Len(t) /\ \A i \in DOMAIN s : s[i] = t[i]

\* the four error kinds of the specification, by exception class
Kind(exc) ==
  CASE exc = "FileNotFoundError" -> "NotFound"
    [] exc = "IndexError" -> "FormatError"
    [] exc \in {"URLError", "HTTPError", "IncompleteRead", "ConnectionResetError"} -> "NetworkError"
    [] exc \in {"ReadError", "EOFError", "PermissionError"} -> "ExtractionError"
    [] OTHER -> "none"

\* C1: when a run has ended, by whatever exit path, no temporary file
\* remains on disk.
C1_NoTempFileRemains == pc = "exit" => tmpfiles = {}

C1_Witness ==
  /\ pc = "exit" /\ failedAt = "extractall" /\ tmpCreated /\ tmpfiles = {}

\* C2: when the version cannot be resolved (file absent or no match) the run
\* fails before any request: nothing is requested, no temporary file is
\* created and the output directory is untouched; and a request is only
\* ever made with an extracted version token.
C2_NoNetworkWithoutVersion ==
  /\ requested # <<>> => xcframework_version \in Versions
  /\ VersionUnresolvable =>
       /\ requested = <<>> /\ ~tmpCreated /\ tmpfiles = {}
       /\ out = outAtStart /\ written = <<>>
       /\ pc \in {"start", "exit"}
       /\ pc = "exit" => error # "none" /\ exitStatus = 1

C2_Witness ==
  /\ pc = "exit" /\ versionFile.exists /\ versionFile.text # <<>>
  /\ Matches(versionFile) = {} /\ error = "IndexError" /\ requested = <<>>

\* C3: after a successful run on a valid archive every entry of the archive
\* is at its path in the output directory with the archive's content.
C3_AllEntriesExtracted ==
  pc = "exit" /\ error = "none" /\ response.valid =>
    \A i \in DOMAIN response.entries :
      /\ response.entries[i].path \in DOMAIN out
      /\ out[response.entries[i].path] = response.entries[i].content

\* C4: the requested URL is the fixed template with the version token
\* substituted exactly once, and exactly one URL is requested per run.
C4_UrlIsTemplate ==
  /\ Len(requested) <= 1
  /\ \A i \in DOMAIN requested :
       /\ requested[i] = <<"https://github.com/4Players/odin-sdk",
                           "/releases/download/v", xcframework_version,
                           "/odin-xcframework.tgz">>
       /\ Cardinality({j \in DOMAIN requested[i] :
                          requested[i][j] = xcframework_version}) = 1
  /\ (pc \notin {"start", "print_start", "urlopen"}
        /\ failedAt # "get_xcframework_version") => Len(requested) = 1

C4_Witness ==
  /\ pc = "exit" /\ error = "none" /\ xcframework_version = "1.2.3"
  /\ Len(requested) = 1

\* C5 (as stated): version resolution succeeds only when the file holds
\* exactly one match of the pattern, and fails for zero or for two or more.
C5_ExactlyOneMatch ==
  pc # "start" =>
    (xcframework_version # "none"
       <=> versionFile.exists /\ Cardinality(Matches(versionFile)) = 1)

\* C5 (amended): version resolution succeeds exactly when the file holds at
\* least one match of the pattern, and then yields the first match; it fails
\* only when the file is absent or holds no match.
C5_FirstOfAtLeastOneMatch ==
  pc # "start" =>
    /\ xcframework_version # "none"
         <=> versionFile.exists /\ Matches(versionFile) # {}
    /\ xcframework_version # "none"
         => xcframework_version = FirstMatch(versionFile)
    /\ xcframework_version = "none"
         => failedAt = "get_xcframework_version" /\ pc = "exit"

C5_Witness ==
  /\ pc = "print_start" /\ Cardinality(Matches(versionFile)) = 2
  /\ versionFile.text[1].value # versionFile.text[2].value
  /\ xcframework_version = versionFile.text[1].value

\* C6: a second successful run with the same version and the same archive
\* bytes leaves the output directory as the first successful run left it.
C6_Idempotent ==
  (/\ pc = "exit" /\ error = "none" /\ prev.ok
   /\ prev.version = xcframework_version /\ prev.bytes = response.bytes)
    => out = prev.out

C6_Witness ==
  /\ run = 2 /\ pc = "exit" /\ error = "none" /\ prev.ok
  /\ prev.version = xcframework_version /\ prev.bytes = response.bytes
  /\ Len(written) = 2 /\ written[1].content # <<>> /\ out = prev.out

C8_LinearRun ==
  /\ IsPrefix(calls, Pipeline)
  /\ error # "none" => pc = "exit" /\ calls # <<>> /\ calls[Len(calls)] = failedAt
  /\ Len(requested) <= 1
  /\ DoneMessage \in Range(stdout)
       <=> (pc = "exit" /\ error = "none" /\ "extractall" \in Range(calls))

C8_Witness ==
  /\ pc = "exit" /\ error = "none" /\ calls = Pipeline
  /\ stdout = <<<<"Downloading Odin.xcframework version", xcframework_version>>,
                DoneMessage>>

\* C9: a run that failed before extractall leaves the output directory as
\* it was; a run that failed in extractall keeps every member it has written
\* and every other file as it was.
C9_NoRollback ==
  pc = "exit" /\ error # "none" =>
    /\ failedAt # "extractall" => out = outAtStart /\ written = <<>>
    /\ failedAt = "extractall" =>
         /\ \A i \in DOMAIN written :
              /\ written[i].path \in DOMAIN out
              /\ out[written[i].path] = written[i].content
         /\ \A p \in DOMAIN outAtStart :
              /\ p \in DOMAIN out
              /\ (\A i \in DOMAIN written : written[i].path # p)
                   => out[p] = outAtStart[p]

C9_Witness ==
  /\ pc = "exit" /\ failedAt = "extractall" /\ written # <<>>
  /\ out # outAtStart

\* C10: when the temporary file is opened by its name, the file holds the
\* whole response body and the writer's buffer is empty.
C10_BodyWrittenThrough ==
  pc = "tar_open" => tmp.disk = response.bytes /\ tmp.buf = <<>>

====
